---------------------------- MODULE Spec2Model ----------------------------
(***************************************************************************)
(* Model of obsidian-tagger (src/main.py): one invocation of main() and    *)
(* ObsidianTagger.add_tags over a vault of markdown files, with the        *)
(* frontmatter codec (parse_frontmatter, update_frontmatter_tags), the     *)
(* vault scan (get_all_vault_tags) and the suggestion client               *)
(* (suggest_tags).                                                         *)
(*                                                                         *)
(* A Python str is a sequence of one-character strings, so that slicing,   *)
(* startswith and index act on character positions as in the source.      *)
(* A Python value (what yaml.safe_load returns) is a record                *)
(* [ty |-> "str" | "none" | "list" | "dict" | "raise", v |-> ...].         *)
(***************************************************************************)
EXTENDS Integers, Sequences, FiniteSets, TLC

(***************************************************************************)
(* Character strings used by the program and by the documents.             *)
(***************************************************************************)
NL == <<"\n">>
SP == <<" ">>
Delim == <<"-", "-", "-">>
KeyTags == <<"t", "a", "g", "s">>
ColonSp == <<":", " ">>
DashSp == <<"-", " ">>
NullWord == <<"n", "u", "l", "l">>

\* len('---'), the offset in content[3:] and "+ 3"
DelimLen == 3
\* the "+ 4" of content[end_idx + 4:]: the closing '---' and one more character
SkipLen == 4

\* ord(c) for the characters of the model's alphabet
Ord(c) ==
    CASE c = "\n" -> 10 [] c = " " -> 32 [] c = "'" -> 39 [] c = "," -> 44
      [] c = "-" -> 45 [] c = ":" -> 58 [] c = "B" -> 66 [] c = "[" -> 91
      [] c = "]" -> 93 [] c = "a" -> 97 [] c = "b" -> 98 [] c = "d" -> 100
      [] c = "g" -> 103 [] c = "h" -> 104 [] c = "k" -> 107 [] c = "l" -> 108
      [] c = "n" -> 110 [] c = "o" -> 111 [] c = "s" -> 115 [] c = "t" -> 116
      [] c = "u" -> 117 [] c = "x" -> 120 [] c = "y" -> 121
      [] OTHER -> 0

(***************************************************************************)
(* Python str operations.                                                  *)
(***************************************************************************)
Min(a, b) == IF a < b THEN a ELSE b

\* s[i:j] with 0-based i, j >= 0, clamped to the string as Python does
Slice(s, i, j) == SubSeq(s, Min(i, Len(s)) + 1, Min(j, Len(s)))

\* s[i:]
SliceFrom(s, i) == Slice(s, i, Len(s))

\* s.startswith(p)
StartsWith(s, p) == Len(s) >= Len(p) /\ SubSeq(s, 1, Len(p)) = p

\* s.endswith(p)
EndsWith(s, p) == Len(s) >= Len(p) /\ SubSeq(s, Len(s) - Len(p) + 1, Len(s)) = p

\* s.find(p): the lowest 0-based index where p occurs in s, -1 if it does not;
\* s.index(p) is the same and raises ValueError where find gives -1
Find(s, p) ==
    LET hits == {i \in 0..(Len(s) - Len(p)) : SubSeq(s, i + 1, i + Len(p)) = p}
    IN  IF hits = {} THEN -1 ELSE CHOOSE i \in hits : \A j \in hits : i <= j

Contains(s, p) == Find(s, p) >= 0

RECURSIVE SplitOn(_, _)
\* s.split(sep)
SplitOn(s, sep) ==
    LET i == Find(s, sep)
    IN  IF i < 0 THEN <<s>>
        ELSE <<Slice(s, 0, i)>> \o SplitOn(SliceFrom(s, i + Len(sep)), sep)

RECURSIVE Strip(_)
\* s.strip(' ')
Strip(s) ==
    IF s # <<>> /\ Head(s) = " " THEN Strip(Tail(s))
    ELSE IF s # <<>> /\ s[Len(s)] = " " THEN Strip(SubSeq(s, 1, Len(s) - 1))
    ELSE s

RECURSIVE Join(_, _)
\* sep.join(parts)
Join(parts, sep) ==
    IF parts = <<>> THEN <<>>
    ELSE IF Len(parts) = 1 THEN parts[1]
    ELSE parts[1] \o sep \o Join(Tail(parts), sep)

RECURSIVE StrLess(_, _)
\* a < b on str: lexicographic by code point
StrLess(a, b) ==
    IF b = <<>> THEN FALSE
    ELSE IF a = <<>> THEN TRUE
    ELSE IF Head(a) # Head(b) THEN Ord(Head(a)) < Ord(Head(b))
    ELSE StrLess(Tail(a), Tail(b))

(***************************************************************************)
(* Python values.                                                          *)
(***************************************************************************)
PyStr(s) == [ty |-> "str", v |-> s]
PyNone == [ty |-> "none", v |-> <<>>]
PyList(xs) == [ty |-> "list", v |-> xs]
\* a dict is its items in insertion order: <<key, value>> pairs, key a str
PyDict(items) == [ty |-> "dict", v |-> items]
\* an operation that raises an exception instead of returning
Raised == [ty |-> "raise", v |-> <<>>]

IsStr(x) == x.ty = "str"
IsList(x) == x.ty = "list"
IsDict(x) == x.ty = "dict"

\* bool(x): None, '', [] and {} are falsy
Truthy(x) == x.ty # "none" /\ x.v # <<>>

SeqRange(xs) == {xs[i] : i \in 1..Len(xs)}

\* key in d
DictHas(d, key) == \E i \in 1..Len(d.v) : d.v[i][1] = key

\* d[key], for a key that is in d
DictGet(d, key) == d.v[CHOOSE i \in 1..Len(d.v) : d.v[i][1] = key][2]

\* d[key] = val: in place when the key is there, appended when it is not
DictSet(d, key, val) ==
    IF DictHas(d, key)
    THEN PyDict([i \in 1..Len(d.v) |->
                    IF d.v[i][1] = key THEN <<key, val>> ELSE d.v[i]])
    ELSE PyDict(Append(d.v, <<key, val>>))

RECURSIVE SortStrs(_)
\* sorted(S) for a set S of str values
SortStrs(S) ==
    IF S = {} THEN <<>>
    ELSE LET m == CHOOSE x \in S : \A y \in S : ~StrLess(y.v, x.v)
         IN  <<m>> \o SortStrs(S \ {m})

\* sorted(set(xs)) for a list xs of str values
SortedSet(xs) == SortStrs(SeqRange(xs))

(***************************************************************************)
(* yaml.safe_load and yaml.dump (PyYAML), for the YAML the documents of    *)
(* the model and the program's own output use: a block mapping of          *)
(* "key: value" lines, a value being a plain scalar, a single-quoted       *)
(* scalar, a flow sequence "[a, b]" (an item may itself be a flow          *)
(* sequence) or, on the lines after "key:", a block sequence of "- item"   *)
(* lines; a top-level scalar, flow sequence or block sequence; nothing.    *)
(* Anything else makes the parser raise.  Indentation, comments, escapes   *)
(* and numbers are outside the alphabet of the model.                      *)
(***************************************************************************)
NonBlank(l) == Strip(l) # <<>>

\* a "- item" line of a block sequence
IsItemLine(l) == StartsWith(l, DashSp) \/ l = <<"-">>

\* a "key: value" or "key:" line of a block mapping
IsKeyLine(l) == ~IsItemLine(l) /\ (Contains(l, ColonSp) \/ EndsWith(l, <<":">>))

\* a plain scalar resolves to None when it is the word null, else to a str
ParsePlain(t) == IF t = NullWord THEN PyNone ELSE PyStr(t)

\* a scalar in a value position: empty, single-quoted or plain
ParseScalar(t) ==
    IF t = <<>> THEN PyNone
    ELSE IF Head(t) = "'"
    THEN IF Len(t) >= 2 /\ t[Len(t)] = "'"
            /\ ~Contains(SubSeq(t, 2, Len(t) - 1), <<"'">>)
         THEN PyStr(SubSeq(t, 2, Len(t) - 1))
         ELSE Raised
    ELSE IF Head(t) \in {"]", ",", "["} THEN Raised
    ELSE IF Contains(t, ColonSp) \/ EndsWith(t, <<":">>) THEN Raised
    ELSE ParsePlain(t)

\* the list of the parsed items, or Raised when parsing one of them raised
ListOrRaised(items) ==
    IF \E i \in 1..Len(items) : items[i].ty = "raise" THEN Raised
    ELSE PyList(items)

RECURSIVE ParseFlowSeq(_)
\* one item of a flow sequence: a nested flow sequence or a scalar
ParseFlowItem(p) ==
    IF p = <<>> THEN Raised
    ELSE IF Head(p) = "[" THEN ParseFlowSeq(p)
    ELSE IF "]" \in {p[i] : i \in 1..Len(p)} THEN Raised
    ELSE ParseScalar(p)

\* the items between the brackets of a flow sequence
ParseFlowItems(inner) ==
    IF inner = <<>> THEN PyList(<<>>)
    ELSE ListOrRaised([i \in 1..Len(SplitOn(inner, <<",">>)) |->
                          ParseFlowItem(Strip(SplitOn(inner, <<",">>)[i]))])

\* a flow sequence "[item, item]"; an unclosed one is a parser error
ParseFlowSeq(t) ==
    IF Len(t) < 2 \/ t[Len(t)] # "]" THEN Raised
    ELSE ParseFlowItems(Strip(SubSeq(t, 2, Len(t) - 1)))

\* the value after "key: " or "- "
ParseValue(t) ==
    IF t # <<>> /\ Head(t) = "[" THEN ParseFlowSeq(t) ELSE ParseScalar(t)

\* the block sequence made of the given "- item" lines
ParseBlockSeq(lines) ==
    ListOrRaised([i \in 1..Len(lines) |-> ParseValue(Strip(Tail(lines[i])))])

\* how many of the leading lines are "- item" lines
LeadingItems(lines) ==
    LET stops == {i \in 1..Len(lines) : ~IsItemLine(lines[i])}
    IN  IF stops = {} THEN Len(lines)
        ELSE (CHOOSE i \in stops : \A j \in stops : i <= j) - 1

\* the value of a "key:" line: the block sequence of the n item lines that
\* follow it, None when none does
ParseBlockValue(lines, n) ==
    IF n = 0 THEN PyNone ELSE ParseBlockSeq(SubSeq(lines, 1, n))

RECURSIVE ParseMapping(_, _)
\* the entry key: val is added to the mapping acc read so far (a repeated key
\* overwrites), and the rest of the lines are read
ParseEntry(acc, key, val, rest) ==
    IF val.ty = "raise" THEN Raised
    ELSE ParseMapping(rest, DictSet(acc, key, val))

\* a "key: value" line, the ": " at index i
ParseInlineEntry(lines, acc, i) ==
    ParseEntry(acc, Slice(Head(lines), 0, i),
               ParseValue(Strip(SliceFrom(Head(lines), i + 2))), Tail(lines))

\* a "key:" line followed by n item lines
ParseBlockEntry(lines, acc, n) ==
    ParseEntry(acc, Slice(Head(lines), 0, Len(Head(lines)) - 1),
               ParseBlockValue(Tail(lines), n),
               SubSeq(lines, n + 2, Len(lines)))

\* a block mapping; acc is the dict read so far
ParseMapping(lines, acc) ==
    IF lines = <<>> THEN acc
    ELSE IF ~IsKeyLine(Head(lines)) THEN Raised
    ELSE IF Contains(Head(lines), ColonSp)
    THEN ParseInlineEntry(lines, acc, Find(Head(lines), ColonSp))
    ELSE ParseBlockEntry(lines, acc, LeadingItems(Tail(lines)))

\* the lines of a text that are not blank, without the spaces around them
TextLines(text) ==
    LET raw == SelectSeq(SplitOn(text, NL), NonBlank)
    IN  [i \in 1..Len(raw) |-> Strip(raw[i])]

\* the document made of the given lines
LoadLines(lines) ==
    IF lines = <<>> THEN PyNone
    ELSE IF IsItemLine(lines[1])
    THEN IF \A i \in 1..Len(lines) : IsItemLine(lines[i])
         THEN ParseBlockSeq(lines) ELSE Raised
    ELSE IF Head(lines[1]) = "["
    THEN IF Len(lines) = 1 THEN ParseFlowSeq(lines[1]) ELSE Raised
    ELSE IF IsKeyLine(lines[1]) THEN ParseMapping(lines, PyDict(<<>>))
    ELSE IF \E i \in 1..Len(lines) : IsKeyLine(lines[i]) THEN Raised
    ELSE IF Len(lines) = 1 THEN ParseScalar(lines[1])
    ELSE PyStr(Join(lines, SP))

\* yaml.safe_load(text): the value, or Raised for a yaml.YAMLError
yaml_safe_load(text) == LoadLines(TextLines(text))

\* whether yaml.dump must quote the str s to have it read back as s
NeedsQuote(s) ==
    \/ s = <<>>
    \/ s = NullWord
    \/ Head(s) \in {"[", "]", "'", ",", ":", " "}
    \/ IsItemLine(s)
    \/ StartsWith(s, Delim)
    \/ Contains(s, ColonSp)
    \/ s[Len(s)] \in {":", " "}

\* a scalar as yaml.dump writes it
EmitScalar(x) ==
    IF x.ty = "none" THEN NullWord
    ELSE IF NeedsQuote(x.v) THEN <<"'">> \o x.v \o <<"'">>
    ELSE x.v

RECURSIVE EmitItems(_, _)
\* the items of a list in block style, each on a "- item" line; indent is
\* what precedes the "- " of every line but the first
EmitItems(xs, indent) ==
    IF xs = <<>> THEN <<>>
    ELSE LET x == Head(xs)
             line == IF x.ty # "list" THEN DashSp \o EmitScalar(x) \o NL
                     ELSE IF x.v = <<>> THEN DashSp \o <<"[", "]">> \o NL
                     ELSE DashSp \o EmitItems(x.v, indent \o SP \o SP)
         IN  line \o (IF Len(xs) = 1 THEN <<>>
                      ELSE indent \o EmitItems(Tail(xs), indent))

\* one "key: value" entry of the block mapping yaml.dump writes
EmitEntry(key, x) ==
    IF x.ty = "list"
    THEN IF x.v = <<>> THEN key \o ColonSp \o <<"[", "]">> \o NL
         ELSE key \o <<":">> \o NL \o EmitItems(x.v, <<>>)
    ELSE key \o ColonSp \o EmitScalar(x) \o NL

RECURSIVE EmitEntries(_)
EmitEntries(items) ==
    IF items = <<>> THEN <<>>
    ELSE EmitEntry(items[1][1], items[1][2]) \o EmitEntries(Tail(items))

\* yaml.dump(d, sort_keys=False, allow_unicode=True): block style, keys in
\* insertion order
yaml_dump(d) == EmitEntries(d.v)

\* str(xs) of a list of str, as an f-string formats it: ['a', 'b']
RECURSIVE ReprItems(_)
ReprItems(xs) ==
    IF xs = <<>> THEN <<>>
    ELSE <<"'">> \o xs[1].v \o <<"'">>
         \o (IF Len(xs) = 1 THEN <<>> ELSE <<",", " ">> \o ReprItems(Tail(xs)))

ListRepr(xs) == <<"[">> \o ReprItems(xs) \o <<"]">>

(***************************************************************************)
(* The frontmatter codec.                                                  *)
(***************************************************************************)
\* "return frontmatter if frontmatter else {}" and "except Exception: return {}"
\* for what yaml.safe_load gave
LoadedOrEmpty(loaded) ==
    IF loaded.ty = "raise" THEN PyDict(<<>>)
    ELSE IF Truthy(loaded) THEN loaded
    ELSE PyDict(<<>>)

\* the try block of parse_frontmatter, i being content[3:].find('---')
ParseBlockAt(content, i) ==
    IF i < 0 THEN PyDict(<<>>)
    ELSE LoadedOrEmpty(yaml_safe_load(Slice(content, DelimLen, i + DelimLen)))

\* ObsidianTagger.parse_frontmatter
parse_frontmatter(content) ==
    IF ~StartsWith(content, Delim) THEN PyDict(<<>>)
    ELSE ParseBlockAt(content, Find(SliceFrom(content, DelimLen), Delim))

\* the document update_frontmatter_tags builds when there is no frontmatter
NewBlock(content, new_tags) ==
    Delim \o NL \o KeyTags \o ColonSp \o ListRepr(new_tags) \o NL
          \o Delim \o NL \o NL \o content

\* the document rebuilt around the frontmatter that was loaded; a loaded
\* value that is no dict makes frontmatter['tags'] = ... raise TypeError
Rebuilt(content, new_tags, end_idx, frontmatter) ==
    IF ~IsDict(frontmatter) THEN content
    ELSE Delim \o NL
         \o yaml_dump(DictSet(frontmatter, KeyTags, PyList(SortedSet(new_tags))))
         \o Delim \o NL \o SliceFrom(content, end_idx + SkipLen)

\* "yaml.safe_load(...) or {}" and the rest of the try block
UpdateLoaded(content, new_tags, end_idx, loaded) ==
    IF loaded.ty = "raise" THEN content
    ELSE IF Truthy(loaded) THEN Rebuilt(content, new_tags, end_idx, loaded)
    ELSE Rebuilt(content, new_tags, end_idx, PyDict(<<>>))

\* the try block of update_frontmatter_tags, i being content[3:].find('---')
UpdateBlockAt(content, new_tags, i) ==
    IF i < 0 THEN content
    ELSE UpdateLoaded(content, new_tags, i + DelimLen,
                      yaml_safe_load(Slice(content, DelimLen, i + DelimLen)))

\* ObsidianTagger.update_frontmatter_tags
update_frontmatter_tags(content, new_tags) ==
    IF ~StartsWith(content, Delim) THEN NewBlock(content, new_tags)
    ELSE UpdateBlockAt(content, new_tags,
                       Find(SliceFrom(content, DelimLen), Delim))

\* the tags of a frontmatter as add_tags reads them: frontmatter.get('tags', [])
\* with a str made a one-element list; Raised when frontmatter has no .get
NormalTags(tags) == IF IsStr(tags) THEN PyList(<<tags>>) ELSE tags

TagsOf(frontmatter) ==
    IF ~IsDict(frontmatter) THEN Raised
    ELSE IF ~DictHas(frontmatter, KeyTags) THEN PyList(<<>>)
    ELSE NormalTags(DictGet(frontmatter, KeyTags))

\* a list whose items are all str
IsStrList(x) == IsList(x) /\ \A i \in 1..Len(x.v) : IsStr(x.v[i])

(***************************************************************************)
(* The documents and the responses the model draws its inputs from.        *)
(***************************************************************************)
Body == <<"b", "o", "d", "y", "\n">>
TagA == <<"a">>
TagB == <<"b">>
TagUpperB == <<"B">>
TagX == <<"x">>
KeyK == <<"k">>

\* no frontmatter
DocPlain == Body
\* no frontmatter, a horizontal rule in the body
DocRule == <<"h", "\n">> \o Delim \o NL \o Body
\* tags: a
DocBare == Delim \o NL \o KeyTags \o ColonSp \o TagA \o NL \o Delim \o NL \o Body
\* tags: [b, a, b]
DocFlow == Delim \o NL \o KeyTags \o ColonSp
           \o <<"[", "b", ",", " ", "a", ",", " ", "b", "]">> \o NL
           \o Delim \o NL \o Body
\* k: x, then tags as a block sequence of a and B
DocBlock == Delim \o NL \o KeyK \o ColonSp \o TagX \o NL
            \o KeyTags \o <<":">> \o NL \o DashSp \o TagA \o NL
            \o DashSp \o TagUpperB \o NL \o Delim \o NL \o Body
\* k: a---b before tags: a
DocDashValue == Delim \o NL \o KeyK \o ColonSp \o TagA \o Delim \o TagB \o NL
                \o KeyTags \o ColonSp \o TagA \o NL \o Delim \o NL \o Body
\* tags: a before k: a---b
DocDashAfter == Delim \o NL \o KeyTags \o ColonSp \o TagA \o NL
                \o KeyK \o ColonSp \o TagA \o Delim \o TagB \o NL
                \o Delim \o NL \o Body
\* the closing delimiter is missing
DocUnterminated == Delim \o NL \o KeyTags \o ColonSp \o TagA \o NL \o Body
\* the closing delimiter is missing and a value holds '---': k: a---b
DocUntermDash == Delim \o NL \o KeyK \o ColonSp \o TagA \o Delim \o TagB \o NL
                 \o KeyTags \o ColonSp \o TagA \o NL \o Body
\* tags: [a   (a flow sequence that is never closed)
DocMalformed == Delim \o NL \o KeyTags \o ColonSp \o <<"[", "a">> \o NL
                \o Delim \o NL \o Body
\* the enclosed text is the scalar "tags"
DocScalar == Delim \o NL \o KeyTags \o NL \o Delim \o NL \o Body
\* the enclosed text is the block sequence "- a"
DocList == Delim \o NL \o DashSp \o TagA \o NL \o Delim \o NL \o Body
\* the enclosed text is the empty flow sequence "[]"
DocEmptyList == Delim \o NL \o <<"[", "]">> \o NL \o Delim \o NL \o Body
\* nothing between the delimiters
DocEmptyBlock == Delim \o NL \o Delim \o NL \o Body
\* k: x and no tags
DocNoTags == Delim \o NL \o KeyK \o ColonSp \o TagX \o NL \o Delim \o NL \o Body
\* tags: with no value (None)
DocNullTags == Delim \o NL \o KeyTags \o <<":">> \o NL \o Delim \o NL \o Body
\* tags: [a, [b]]
DocNested == Delim \o NL \o KeyTags \o ColonSp
             \o <<"[", "a", ",", " ", "[", "b", "]", "]">> \o NL
             \o Delim \o NL \o Body
\* tags: a and the file ends with the closing delimiter
DocNoBody == Delim \o NL \o KeyTags \o ColonSp \o TagA \o NL \o Delim

TargetDocs ==
    {DocPlain, DocRule, DocBare, DocFlow, DocBlock, DocDashValue, DocDashAfter,
     DocUnterminated, DocUntermDash, DocMalformed, DocScalar, DocList, DocEmptyList,
     DocEmptyBlock, DocNoTags, DocNullTags, DocNested, DocNoBody}

OtherDocs == {DocPlain, DocFlow, DocBlock, DocScalar, DocNested}

\* a file: ok is whether open() and read() succeed, text what read() returns
File(ok, text) == [ok |-> ok, text |-> text]

OtherFiles == {File(TRUE, d) : d \in OtherDocs} \cup {File(FALSE, DocBare)}

Note == "note.md"
Other == "other.md"
Gone == "gone.md"
\* the files Path.rglob("*.md") finds under the vault
VaultFiles == {Note, Other}

\* a JSON number, which is no str
JsonNumber == [ty |-> "int", v |-> <<>>]

SuggestionLists ==
    {<<>>, <<PyStr(TagX)>>,
     <<PyStr(TagB), PyStr(TagUpperB), PyStr(TagA), PyStr(TagB)>>}

\* what json.loads makes of the text of a response segment
JsonTexts ==
    {PyList(xs) : xs \in SuggestionLists}
    \cup {Raised, PyDict(<<>>), PyList(<<PyStr(TagX), JsonNumber>>), PyStr(TagX)}

\* a response of the service: raised is a failed call, nseg is
\* len(response.content), type and text those of response.content[0]
Response(raised, nseg, type, text) ==
    [raised |-> raised, nseg |-> nseg, type |-> type, text |-> text]

NoResponse == Response(FALSE, 0, "none", PyNone)

Responses ==
    {Response(FALSE, 1, "text", t) : t \in JsonTexts}
    \cup {Response(TRUE, 0, "none", PyNone),
          Response(FALSE, 0, "none", PyNone),
          Response(FALSE, 2, "text", PyList(<<PyStr(TagX)>>)),
          Response(FALSE, 1, "tool_use", PyList(<<PyStr(TagX)>>))}

\* ParseResponse without the check that every element is a str: the strings
\* of the array are kept and the rest dropped
ParseResponseKeepsStrings(r) ==
    IF r.nseg # 1 THEN Raised
    ELSE IF r.type # "text" THEN Raised
    ELSE IF r.text.ty # "list" THEN Raised
    ELSE PyList(SelectSeq(r.text.v, IsStr))

\* suggest_tags after the call returned: the list, or Raised for ValueError
\* and json.JSONDecodeError
ParseResponse(r) ==
    IF r.nseg # 1 THEN Raised
    ELSE IF r.type # "text" THEN Raised
    ELSE IF r.text.ty = "raise" THEN Raised
    ELSE IF ~IsStrList(r.text) THEN Raised
    ELSE r.text

\* how many invocations of the program a behaviour holds
MaxRuns == 2

(***************************************************************************)
(* The state: the process (main and add_tags with their locals), the       *)
(* files of the vault, and what the process did to the outside.            *)
(***************************************************************************)
VARIABLES
    argv,            \* sys.argv
    api_key,         \* os.getenv('ANTHROPIC_API_KEY'); "" when it is not set
    fs,              \* the files of the vault: name -> File
    pc,              \* where the process is
    run,             \* the number of this invocation
    confirmed,       \* input("Press Enter to continue...") has returned
    requests,        \* calls of client.messages.create in this invocation
    writes,          \* completed writes of the target file in this invocation
    fs0,             \* the files as they were when this invocation started
    contents,        \* add_tags: contents
    frontmatter,     \* add_tags: frontmatter
    current_tags,    \* add_tags: current_tags
    scanned,         \* get_all_vault_tags: the files the loop has been through
    scan_errors,     \* get_all_vault_tags: the files "Error processing" was printed for
    vault_tags,      \* get_all_vault_tags: all_tags, then add_tags: vault_tags
    response,        \* suggest_tags: response
    new_tags,        \* add_tags: new_tags
    all_tags,        \* add_tags: all_tags
    updated_content, \* add_tags: updated_content
    reported         \* the set printed after "Added tags:"

vars == <<argv, api_key, fs, pc, run, confirmed, requests, writes, fs0,
          contents, frontmatter, current_tags, scanned, scan_errors,
          vault_tags, response, new_tags, all_tags, updated_content, reported>>

\* the locals of add_tags and its callees
locals == <<contents, frontmatter, current_tags, scanned, scan_errors,
            vault_tags, response, new_tags, all_tags, updated_content, reported>>

\* what a run leaves alone unless it says otherwise
env == <<argv, api_key, run, fs0>>

\* ' '.join(sys.argv[1:])
filepath == argv[2]

LocalsInit ==
    /\ contents = <<>>
    /\ frontmatter = PyNone
    /\ current_tags = PyNone
    /\ scanned = {}
    /\ scan_errors = {}
    /\ vault_tags = {}
    /\ response = NoResponse
    /\ new_tags = <<>>
    /\ all_tags = <<>>
    /\ updated_content = <<>>
    /\ reported = {}

Init ==
    /\ argv \in {<<"main.py">>, <<"main.py", Note>>, <<"main.py", Gone>>}
    /\ api_key \in {"", "sk"}
    /\ \E t \in TargetDocs, o \in OtherFiles :
          fs = [f \in VaultFiles |-> IF f = Note THEN File(TRUE, t) ELSE o]
    /\ fs0 = fs
    /\ pc = "main"
    /\ run = 1
    /\ confirmed = FALSE
    /\ requests = 0
    /\ writes = 0
    /\ LocalsInit

\* CheckArgs without the check of the credential
CheckArgsNoCredential ==
    /\ pc = "main"
    /\ pc' = IF Len(argv) < 2 THEN "exit" ELSE "input"
    /\ UNCHANGED <<env, fs, confirmed, requests, writes, locals>>

\* main, up to the prompt: the argument and the credential are checked
CheckArgs ==
    /\ pc = "main"
    /\ pc' = IF Len(argv) < 2 THEN "exit"
             ELSE IF api_key = "" THEN "exit"
             ELSE "input"
    /\ UNCHANGED <<env, fs, confirmed, requests, writes, locals>>

\* input("Press Enter to continue...") returns
Confirm ==
    /\ pc = "input"
    /\ confirmed' = TRUE
    /\ pc' = "read"
    /\ UNCHANGED <<env, fs, requests, writes, locals>>

\* input() raises EOFError: standard input is closed
InputEOF ==
    /\ pc = "input"
    /\ pc' = "failed"
    /\ UNCHANGED <<env, fs, confirmed, requests, writes, locals>>

\* add_tags: open and read the target; a missing or unreadable file raises
ReadTarget ==
    /\ pc = "read"
    /\ IF filepath \in DOMAIN fs /\ fs[filepath].ok
       THEN /\ contents' = fs[filepath].text
            /\ pc' = "parse"
       ELSE /\ contents' = contents
            /\ pc' = "failed"
    /\ UNCHANGED <<env, fs, confirmed, requests, writes, frontmatter,
                   current_tags, scanned, scan_errors, vault_tags, response,
                   new_tags, all_tags, updated_content, reported>>

\* add_tags: parse the frontmatter and read the current tags;
\* frontmatter.get raises AttributeError on a str or a list
ParseTarget ==
    /\ pc = "parse"
    /\ frontmatter' = parse_frontmatter(contents)
    /\ IF TagsOf(frontmatter').ty = "raise"
       THEN /\ current_tags' = current_tags
            /\ pc' = "failed"
       ELSE /\ current_tags' = TagsOf(frontmatter')
            /\ pc' = "scan"
    /\ UNCHANGED <<env, fs, confirmed, requests, writes, contents, scanned,
                   scan_errors, vault_tags, response, new_tags, all_tags,
                   updated_content, reported>>

\* a value a set can hold
Hashable(x) == x.ty \in {"str", "none"}

\* the items set.update(tags) adds before it returns or raises: those before
\* the first unhashable one
AddedBy(tags) ==
    {tags[i] : i \in {j \in 1..Len(tags) : \A k \in 1..j : Hashable(tags[k])}}

\* what one pass of the loop of get_all_vault_tags does: the tags it adds to
\* all_tags, and whether it raised (and was caught and printed)
Scanned(add, err) == [add |-> add, err |-> err]

\* the pass, tags being frontmatter['tags']
ScanTags(tags) ==
    IF IsStr(tags) THEN Scanned({tags}, FALSE)
    ELSE IF IsList(tags)
    THEN Scanned(AddedBy(tags.v), \E i \in 1..Len(tags.v) : ~Hashable(tags.v[i]))
    ELSE Scanned({}, FALSE)

\* the pass, fm being what parse_frontmatter returned: "'tags' in frontmatter"
\* is a substring test on a str and a membership test on a list, and
\* frontmatter['tags'] then raises TypeError on both
ScanFrontmatter(fm) ==
    IF ~Truthy(fm) THEN Scanned({}, FALSE)
    ELSE IF IsStr(fm) THEN Scanned({}, Contains(fm.v, KeyTags))
    ELSE IF IsList(fm)
    THEN Scanned({}, \E i \in 1..Len(fm.v) : fm.v[i] = PyStr(KeyTags))
    ELSE IF ~DictHas(fm, KeyTags) THEN Scanned({}, FALSE)
    ELSE ScanTags(DictGet(fm, KeyTags))

\* the pass over file f
ScanOne(f) ==
    IF ~fs[f].ok THEN Scanned({}, TRUE)
    ELSE ScanFrontmatter(parse_frontmatter(fs[f].text))

\* the pass over file f had result res
ScanStep(f, res) ==
    /\ scanned' = scanned \cup {f}
    /\ vault_tags' = vault_tags \cup res.add
    /\ scan_errors' = IF res.err THEN scan_errors \cup {f} ELSE scan_errors

\* get_all_vault_tags: the loop body for the next file rglob yields
ScanFile(f) ==
    /\ pc = "scan"
    /\ f \in VaultFiles \ scanned
    /\ ScanStep(f, ScanOne(f))
    /\ UNCHANGED <<env, fs, pc, confirmed, requests, writes, contents,
                   frontmatter, current_tags, response, new_tags, all_tags,
                   updated_content, reported>>

\* create_tag_generation_prompt returns: both joins are over str only
PromptOk ==
    /\ IsStrList(current_tags)
    /\ \A t \in vault_tags : IsStr(t)

\* get_all_vault_tags returns, suggest_tags builds the prompt and calls the
\* service, which answers r (or fails)
Request(r) ==
    /\ pc = "scan"
    /\ scanned = VaultFiles
    /\ IF ~PromptOk
       THEN /\ pc' = "failed"
            /\ UNCHANGED <<requests, response>>
       ELSE /\ requests' = requests + 1
            /\ response' = r
            /\ pc' = IF r.raised THEN "failed" ELSE "response"
    /\ UNCHANGED <<env, fs, confirmed, writes, contents, frontmatter,
                   current_tags, scanned, scan_errors, vault_tags, new_tags,
                   all_tags, updated_content, reported>>

\* MergedTags without the current tags: sorted(set(new_tags))
MergedTagsOfSuggested(current, suggested) == SortedSet(suggested)

\* add_tags: all_tags = sorted(set(current_tags + new_tags))
MergedTags(current, suggested) == SortedSet(current \o suggested)

\* suggest_tags checks the response; add_tags merges the tags
Merge ==
    /\ pc = "response"
    /\ IF ParseResponse(response).ty = "raise"
       THEN /\ pc' = "failed"
            /\ UNCHANGED <<new_tags, all_tags>>
       ELSE /\ new_tags' = ParseResponse(response).v
            /\ all_tags' = MergedTags(current_tags.v, new_tags')
            /\ pc' = "update"
    /\ UNCHANGED <<env, fs, confirmed, requests, writes, contents, frontmatter,
                   current_tags, scanned, scan_errors, vault_tags, response,
                   updated_content, reported>>

\* add_tags: updated_content = self.update_frontmatter_tags(contents, all_tags)
Update ==
    /\ pc = "update"
    /\ updated_content' = update_frontmatter_tags(contents, all_tags)
    /\ pc' = "write"
    /\ UNCHANGED <<env, fs, confirmed, requests, writes, contents, frontmatter,
                   current_tags, scanned, scan_errors, vault_tags, response,
                   new_tags, all_tags, reported>>

\* add_tags: the file is opened for writing and written
Write ==
    /\ pc = "write"
    /\ fs' = [fs EXCEPT ![filepath].text = updated_content]
    /\ writes' = writes + 1
    /\ pc' = "report"
    /\ UNCHANGED <<env, confirmed, requests, locals>>

\* add_tags: open(..., 'w') raises (the file is not writable)
WriteFails ==
    /\ pc = "write"
    /\ pc' = "failed"
    /\ UNCHANGED <<env, fs, confirmed, requests, writes, locals>>

\* add_tags: "Successfully updated tags" and "Added tags: ..." are printed
Report ==
    /\ pc = "report"
    /\ reported' = SeqRange(new_tags) \ SeqRange(current_tags.v)
    /\ pc' = "done"
    /\ UNCHANGED <<env, fs, confirmed, requests, writes, contents, frontmatter,
                   current_tags, scanned, scan_errors, vault_tags, response,
                   new_tags, all_tags, updated_content>>

\* the process has ended; the program is invoked again on the same vault
Rerun ==
    /\ pc \in {"done", "failed"}
    /\ run < MaxRuns
    /\ run' = run + 1
    /\ fs0' = fs
    /\ pc' = "main"
    /\ confirmed' = FALSE
    /\ requests' = 0
    /\ writes' = 0
    /\ contents' = <<>>
    /\ frontmatter' = PyNone
    /\ current_tags' = PyNone
    /\ scanned' = {}
    /\ scan_errors' = {}
    /\ vault_tags' = {}
    /\ response' = NoResponse
    /\ new_tags' = <<>>
    /\ all_tags' = <<>>
    /\ updated_content' = <<>>
    /\ reported' = {}
    /\ UNCHANGED <<argv, api_key, fs>>

Next ==
    \/ CheckArgs
    \/ Confirm
    \/ InputEOF
    \/ ReadTarget
    \/ ParseTarget
    \/ \E f \in VaultFiles : ScanFile(f)
    \/ \E r \in Responses : Request(r)
    \/ Merge
    \/ Update
    \/ Write
    \/ WriteFails
    \/ Report
    \/ Rerun

Spec == Init /\ [][Next]_vars

(***************************************************************************)
(* The metadata block of a document as the wire format defines it: a       *)
(* delimiter line at the very start of the file, a matching delimiter line *)
(* closing it, YAML between the two, the body after the closing line.      *)
(***************************************************************************)
\* the 0-based index of the line break before the closing delimiter line,
\* -1 when there is none
CloseAt(content) ==
    LET hits == {i \in DelimLen..(Len(content) - 4) :
                    /\ Slice(content, i, i + 4) = NL \o Delim
                    /\ (i + 4 = Len(content) \/ content[i + 5] = "\n")}
    IN  IF hits = {} THEN -1 ELSE CHOOSE i \in hits : \A j \in hits : i <= j

HasBlock(content) == StartsWith(content, Delim \o NL) /\ CloseAt(content) >= 0

\* the text between the two delimiter lines
BlockText(content) == Slice(content, 4, CloseAt(content) + 1)

\* everything after the closing delimiter line
BodyText(content) == SliceFrom(content, CloseAt(content) + 5)

\* the mapping the block holds; an empty block holds the empty mapping
BlockDict(content) ==
    LET value == yaml_safe_load(BlockText(content))
    IN  IF value.ty = "none" THEN PyDict(<<>>) ELSE value

WellFormed(content) == HasBlock(content) /\ IsDict(BlockDict(content))

\* the tags of a well-formed block, a bare string being a one-element list
BlockTags(content) == TagsOf(BlockDict(content))

\* the entries of a mapping other than tags
OtherEntries(d) == {d.v[i] : i \in {j \in 1..Len(d.v) : d.v[j][1] # KeyTags}}

\* the tag set of a document as parse_frontmatter reads it back
ReadBackTags(content) ==
    LET tags == TagsOf(parse_frontmatter(content))
    IN  IF IsList(tags) THEN SeqRange(tags.v) ELSE {}

\* the run ended: add_tags returned, or an exception ended the process
Ended == pc \in {"done", "failed"}

(***************************************************************************)
(* The claims.                                                             *)
(***************************************************************************)

\* C1: after every successful run of add_tags on a target whose metadata
\* block is well-formed, the tags field of the written document is
\* sorted(unique(current_tags + suggested_tags)), current_tags being the
\* tags of the document before the run.
C1_WrittenTagsAreMerged ==
    (pc = "done" /\ WellFormed(contents)) =>
        /\ WellFormed(fs[filepath].text)
        /\ BlockTags(fs[filepath].text).ty = "list"
        /\ BlockTags(fs[filepath].text).v
              = SortedSet(BlockTags(contents).v \o new_tags)

\* C2: for a document with a well-formed metadata block, parse_frontmatter
\* followed by update_frontmatter_tags with the same tag list gives a
\* document with an equivalent block (tags sorted and deduplicated) and the
\* same body, character for character.
C2_RoundTripKeepsBlockAndBody ==
    (pc = "write" /\ new_tags = <<>> /\ WellFormed(contents)) =>
        /\ WellFormed(updated_content)
        /\ BlockDict(updated_content)
              = DictSet(BlockDict(contents), KeyTags,
                        PyList(SortedSet(BlockTags(contents).v)))
        /\ BodyText(updated_content) = BodyText(contents)

\* C3: update_frontmatter_tags changes only the tags field: the rewritten
\* block holds exactly the non-tag keys of the original block, with their
\* original values, also when a value contains '---'.
C3_OtherKeysKept ==
    (pc = "write" /\ WellFormed(contents)) =>
        /\ WellFormed(updated_content)
        /\ OtherEntries(BlockDict(updated_content))
              = OtherEntries(BlockDict(contents))

\* the response is exactly one text segment holding a JSON array of strings
WellShaped(r) ==
    /\ ~r.raised
    /\ r.nseg = 1
    /\ r.type = "text"
    /\ r.text.ty = "list"
    /\ \A i \in 1..Len(r.text.v) : r.text.v[i].ty = "str"

\* C4: when the response of the service is not exactly one text segment
\* that parses as a JSON array of strings, the invocation aborts: no tag is
\* accepted and the target file is never written, its content staying what
\* it was before the run.
C4_BadResponseAborts ==
    (requests > 0 /\ ~WellShaped(response)) =>
        /\ pc \in {"response", "failed"}
        /\ new_tags = <<>>
        /\ all_tags = <<>>
        /\ writes = 0
        /\ fs = fs0

\* C4 witness: the run failed on a response whose JSON array holds a number
\* after a string.
C4_Witness ==
    /\ pc = "failed"
    /\ requests = 1
    /\ response.nseg = 1
    /\ response.type = "text"
    /\ response.text.ty = "list"
    /\ Len(response.text.v) = 2
    /\ response.text.v[2].ty = "int"

\* the metadata block of a document that begins with the delimiter cannot be
\* parsed: it is unterminated, its YAML is malformed, or it holds a scalar
\* or a list
Unparseable(content) ==
    /\ StartsWith(content, Delim)
    /\ \/ ~HasBlock(content)
       \/ yaml_safe_load(BlockText(content)).ty = "raise"
       \/ /\ Truthy(yaml_safe_load(BlockText(content)))
          /\ ~IsDict(yaml_safe_load(BlockText(content)))

\* C5: a document that begins with the delimiter and whose metadata block
\* cannot be parsed is never changed: when the run has ended, the file holds
\* what it held before the run.
C5_UnparseableFileKept ==
    (Ended /\ contents # <<>> /\ Unparseable(contents)) =>
        fs[filepath].text = contents

\* the normalized tags of file f as parse_frontmatter reads them
FileTags(f) == ReadBackTags(fs[f].text)

\* C6: get_all_vault_tags returns exactly the union of the normalized tags
\* of the files that were processed without error; a file whose processing
\* raised contributes none of its tags.
C6_VaultTagsFromGoodFiles ==
    (pc = "scan" /\ scanned = VaultFiles) =>
        vault_tags = UNION {FileTags(f) : f \in VaultFiles \ scan_errors}

\* the text parse_frontmatter hands to yaml.safe_load
Enclosed(content) ==
    Slice(content, DelimLen, Find(SliceFrom(content, DelimLen), Delim) + DelimLen)

\* C7: parse_frontmatter always returns a mapping: the empty mapping when the
\* text does not begin with the delimiter, has no second delimiter, or
\* encloses text that is empty, malformed or no key/value data; otherwise
\* the mapping parsed from the enclosed text.
C7_ParseReturnsMapping ==
    (frontmatter.ty # "none") =>
        /\ IsDict(frontmatter)
        /\ IF \/ ~StartsWith(contents, Delim)
              \/ Find(SliceFrom(contents, DelimLen), Delim) < 0
              \/ ~IsDict(yaml_safe_load(Enclosed(contents)))
           THEN frontmatter = PyDict(<<>>)
           ELSE frontmatter = yaml_safe_load(Enclosed(contents))

\* C8: the merge is idempotent: a run of add_tags in which the service
\* returns [] leaves the tag set of the document, as parse_frontmatter reads
\* it back, what it was after the run before, also when that run created
\* the metadata block.
C8_EmptySuggestionKeepsTags ==
    (pc = "done" /\ new_tags = <<>>) =>
        ReadBackTags(fs[filepath].text) = ReadBackTags(fs0[filepath].text)

\* C8 witness: the second run, with no suggestion, has ended on the document
\* whose metadata block the first run created with the tag x.
C8_Witness ==
    /\ pc = "done"
    /\ run = 2
    /\ new_tags = <<>>
    /\ fs0[filepath].text = NewBlock(DocPlain, <<PyStr(TagX)>>)
    /\ ReadBackTags(fs[filepath].text) = {PyStr(TagX)}

\* C9: when add_tags reports success, the reported set is suggested_tags
\* minus current_tags as applied: every reported tag is in the tags of the
\* file as written and was not in the tags of the file before the run.
C9_ReportedTagsApplied ==
    (pc = "done") =>
        /\ reported = SeqRange(new_tags) \ ReadBackTags(contents)
        /\ \A t \in reported :
              /\ t \in ReadBackTags(fs[filepath].text)
              /\ t \notin ReadBackTags(contents)

\* reading the target document fails
ReadFails ==
    /\ Len(argv) >= 2
    /\ (filepath \notin DOMAIN fs \/ ~fs[filepath].ok)

\* C10: an invocation sends at most one request to the service and none
\* before the confirmation; with the argument or the credential missing, or
\* the target unreadable, it sends none and writes no file.
C10_OneRequestAfterConfirmation ==
    /\ requests <= 1
    /\ (requests > 0 => confirmed)
    /\ (Len(argv) < 2 \/ api_key = "" \/ ReadFails) =>
          (requests = 0 /\ writes = 0 /\ fs = fs0)

\* C10 witness: a confirmed run sent its one request and ended with the
\* file written.
C10_Witness ==
    /\ pc = "done"
    /\ confirmed
    /\ requests = 1
    /\ writes = 1

=============================================================================
